---- MODULE Spec2Model ----
(***************************************************************************)
(* A model of the openai_enhance gateway: its two transformations          *)
(*   - extract_cot  (src/cot/deepseek.rs): the incremental <think> tag     *)
(*     extraction over a stream of chunks, as an async generator;          *)
(*   - truncate_messages / truncate_message (src/lib.rs): the token budget *)
(*     truncation of a prompt or of a conversation;                        *)
(* and the headers of the request it sends upstream (forward_request,      *)
(* proxy_handler in src/lib.rs, send_stream_request in src/sse.rs).        *)
(* Text is a sequence of one-character strings.  Option<T> is a sequence   *)
(* of length 0 (None) or 1 (Some).                                         *)
(***************************************************************************)
EXTENDS Integers, Sequences, FiniteSets, TLC

VARIABLES
    state,      \* extract_cot: the ThinkTagState local
    pc,         \* extract_cot: where the generator is suspended
    pending,    \* extract_cot: the items the running iteration has still to yield
    after,      \* extract_cot: what the iteration does after its last yield
    inputs,     \* the items the generator has taken from the upstream stream
    outputs,    \* the items the generator has handed to its consumer
    groups,     \* history: per input item, the output items derived from it
    pre,        \* history: per input item, the ThinkTagState it was received in
    tpc,        \* truncate_messages: position in the function
    kind,       \* truncate_messages: the MessageType variant of the call
    max_token,  \* truncate_messages: the budget argument
    prompt,     \* MessageType::Single: the text
    messages,   \* MessageType::Multiple: the queue of messages
    token_list, \* truncate_messages: the queue of token vectors
    sum,        \* truncate_messages: the running sum of token counts
    tokens,     \* truncate_message: the token queue, after the drain
    orig,       \* history: the prompt / the messages at the call
    iters,      \* history: number of iterations of the while loop
    fpc,        \* forwarding: position of the handler
    handler,    \* forwarding: the handler the router chose
    method,     \* forwarding: the method of the inbound request
    path,       \* forwarding: the path of the inbound request
    headers,    \* forwarding: the HeaderMap of the inbound request
    streaming,  \* forwarding: payload.stream.unwrap_or_default()
    cot_parser, \* ServerState::cot_parser
    upstream    \* forwarding: the request sent to the backend

cotVars == <<state, pc, pending, after, inputs, outputs, groups, pre>>
truncVars ==
    <<tpc, kind, max_token, prompt, messages, token_list, sum, tokens, orig, iters>>
fwdVars ==
    <<fpc, handler, method, path, headers, streaming, cot_parser, upstream>>
vars == <<state, pc, pending, after, inputs, outputs, groups, pre,
          tpc, kind, max_token, prompt, messages, token_list, sum, tokens,
          orig, iters,
          fpc, handler, method, path, headers, streaming, cot_parser, upstream>>

(***************************************************************************)
(* Option<T>                                                               *)
(***************************************************************************)
None == <<>>
Some(x) == <<x>>
is_some(o) == Len(o) = 1
is_none(o) == Len(o) = 0
unwrap(o) == o[1]

(***************************************************************************)
(* str                                                                     *)
(***************************************************************************)
THINK_BEGIN_TAG == <<"<", "t", "h", "i", "n", "k", ">">>
THINK_END_TAG == <<"<", "/", "t", "h", "i", "n", "k", ">">>

\* char::is_whitespace, on the characters the model draws
is_whitespace(c) == c \in {" ", "\n", "\t", "\r"}

\* s[i..] of Rust, i a 0-based offset
Tail_from(s, i) == SubSeq(s, i + 1, Len(s))

\* str::starts_with
starts_with(s, p) == Len(p) <= Len(s) /\ SubSeq(s, 1, Len(p)) = p

\* the offsets at which pattern p occurs in s
match_offsets(s, p) ==
    {i \in 0..(Len(s) - Len(p)) : SubSeq(s, i + 1, i + Len(p)) = p}

\* str::contains
contains(s, p) == match_offsets(s, p) # {}

\* str::find: the offset of the first occurrence (only used when contains)
find(s, p) == CHOOSE i \in match_offsets(s, p) : \A j \in match_offsets(s, p) : i <= j

\* str::strip_prefix: Some(rest) when s starts with p, else None
strip_prefix(s, p) == IF starts_with(s, p) THEN Some(Tail_from(s, Len(p))) ELSE None

\* str::trim_start: drop the leading whitespace characters
RECURSIVE trim_start(_)
trim_start(s) ==
    IF s # <<>> /\ is_whitespace(Head(s)) THEN trim_start(Tail(s)) ELSE s

\* a faulty variant of splitn2: splits at the last occurrence (rsplitn)
splitn2_at_last(s, p) ==
    IF contains(s, p)
    THEN LET i == CHOOSE i \in match_offsets(s, p) :
                      \A j \in match_offsets(s, p) : j <= i
         IN  <<SubSeq(s, 1, i), Tail_from(s, i + Len(p))>>
    ELSE <<s>>

\* str::splitn(2, p), collected: one piece when p does not occur, else the text
\* before the first occurrence and the whole rest after it (the rest may be "")
splitn2(s, p) ==
    IF contains(s, p)
    THEN <<SubSeq(s, 1, find(s, p)), Tail_from(s, find(s, p) + Len(p))>>
    ELSE <<s>>

(***************************************************************************)
(* sse.rs: Delta, Choice, Chunk                                            *)
(***************************************************************************)
Delta(reasoning_content, content) ==
    [reasoning_content |-> reasoning_content, content |-> content]

Choice(index, delta, finish_reason) ==
    [index |-> index, delta |-> delta, logprobs |-> None,
     finish_reason |-> finish_reason, stop_reason |-> None]

Chunk(id, choices) ==
    [id |-> id, object |-> "chat.completion.chunk", created |-> 0,
     model |-> "deepseek", choices |-> choices]

\* anyhow::Result<Chunk>
Ok(chunk) == [tag |-> "Ok", chunk |-> chunk]
Err(err) == [tag |-> "Err", err |-> err]

\* a faulty variant of set_delta: the choices are rebuilt from the first one,
\* without its finish_reason
set_delta_rebuilds_choices(chunk, delta) ==
    [chunk EXCEPT !.choices =
        <<[@[1] EXCEPT !.delta = delta, !.finish_reason = None]>>]

\* chunk.choices[0].delta = delta
set_delta(chunk, delta) == [chunk EXCEPT !.choices[1].delta = delta]

(***************************************************************************)
(* cot/deepseek.rs: ThinkTagState                                          *)
(***************************************************************************)
StInit == [tag |-> "Init"]
StBegin(trimmed_follow_new_line) ==
    [tag |-> "Begin", trimmed_follow_new_line |-> trimmed_follow_new_line]
StEnd == [tag |-> "End"]
StNoTag == [tag |-> "NoTag"]

(***************************************************************************)
(* cot/deepseek.rs: one iteration of the while loop of extract_cot, from   *)
(* the item st.next() returned to the continue / return that ends it:      *)
(* the new state, the items it yields in order, and how it ends.           *)
(***************************************************************************)
Iter(st, yields, then) == [state |-> st, yields |-> yields, then |-> then]

\* a faulty variant of is_empty_chunk: one empty field is enough
is_empty_chunk_either(delta) ==
    \/ (IF is_some(delta.reasoning_content)
        THEN unwrap(delta.reasoning_content) = <<>> ELSE FALSE)
    \/ (IF is_some(delta.content)
        THEN unwrap(delta.content) = <<>> ELSE FALSE)

\* the "skip empty chunk" test: both fields are Some("")
is_empty_chunk(delta) ==
    /\ (IF is_some(delta.reasoning_content)
        THEN unwrap(delta.reasoning_content) = <<>> ELSE FALSE)
    /\ (IF is_some(delta.content)
        THEN unwrap(delta.content) = <<>> ELSE FALSE)

\* a faulty variant of split_yields: the second chunk keeps the reasoning of the first
split_yields_keeps_reasoning(chunk, content, trim_rest) ==
    LET split_contents == splitn2(content, THINK_END_TAG)
        rest == IF trim_rest THEN trim_start(split_contents[2])
                ELSE split_contents[2]
    IN  <<Ok(set_delta(chunk, Delta(Some(split_contents[1]), None))),
          Ok(set_delta(chunk, Delta(Some(split_contents[1]), Some(rest))))>>

\* the two yields of a chunk that holds the end tag: the clone with the
\* reasoning, then the chunk itself with the rest, when splitn gives a rest
split_yields(chunk, content, trim_rest) ==
    LET split_contents == splitn2(content, THINK_END_TAG)
        reasoning_chunk ==
            set_delta(chunk, Delta(Some(split_contents[1]), None))
    IN  IF Len(split_contents) >= 2
        THEN LET rest == IF trim_rest THEN trim_start(split_contents[2])
                         ELSE split_contents[2]
             IN  <<Ok(reasoning_chunk),
                   Ok(set_delta(chunk, Delta(None, Some(rest))))>>
        ELSE <<Ok(reasoning_chunk)>>

\* a faulty variant of on_open_tag: yields nothing when no text follows the begin tag
on_open_tag_drops_blank(chunk, stripped) ==
    LET content == trim_start(stripped)
        st == StBegin(content # stripped)
    IN  IF ~contains(content, THINK_END_TAG)
        THEN Iter(st,
                  IF content = <<>> THEN <<>>
                  ELSE <<Ok(set_delta(chunk, Delta(Some(content), None)))>>,
                  "continue")
        ELSE Iter(StEnd, split_yields(chunk, content, TRUE), "continue")

\* ThinkTagState::Init, content starts with the begin tag; stripped is the
\* content after the tag
on_open_tag(chunk, stripped) ==
    LET trimmed_content == trim_start(stripped)
        content == trimmed_content
        st == StBegin(trimmed_content # stripped)
    IN  IF ~contains(content, THINK_END_TAG)
        THEN Iter(st, <<Ok(set_delta(chunk, Delta(Some(content), None)))>>,
                  "continue")
        ELSE Iter(StEnd, split_yields(chunk, content, TRUE), "continue")

\* ThinkTagState::Init
on_init(chunk) ==
    LET delta == chunk.choices[1].delta IN
    IF is_some(delta.reasoning_content)
    THEN Iter(StEnd, <<Ok(chunk)>>, "continue")
    ELSE IF is_none(delta.content)
    THEN Iter(StInit, <<Err("reasoning_content or content is empty")>>, "return")
    ELSE LET stripped == strip_prefix(unwrap(delta.content), THINK_BEGIN_TAG) IN
         IF is_none(stripped)
         THEN Iter(StNoTag, <<Ok(chunk)>>, "continue")
         ELSE on_open_tag(chunk, unwrap(stripped))

\* a faulty variant of on_begin: the content is copied to the reasoning, not moved
on_begin_copies_content(st, chunk) ==
    LET delta == chunk.choices[1].delta IN
    IF is_none(delta.content)
    THEN Iter(st, <<Ok(chunk)>>, "continue")
    ELSE LET content == unwrap(delta.content) IN
         IF ~contains(content, THINK_END_TAG)
         THEN LET moved == IF ~st.trimmed_follow_new_line
                           THEN trim_start(content) ELSE content
              IN  Iter(StBegin(TRUE),
                       <<Ok(set_delta(chunk, Delta(Some(moved), Some(content))))>>,
                       "continue")
         ELSE Iter(StEnd, split_yields(chunk, content, FALSE), "continue")

\* a faulty variant of on_begin: the chunk moved to the reasoning is yielded
\* again by the yield at the end of the branch
on_begin_yields_again(st, chunk) ==
    LET delta == chunk.choices[1].delta IN
    IF is_none(delta.content)
    THEN Iter(st, <<Ok(chunk)>>, "continue")
    ELSE LET content == unwrap(delta.content) IN
         IF ~contains(content, THINK_END_TAG)
         THEN LET moved == IF ~st.trimmed_follow_new_line
                           THEN trim_start(content) ELSE content
                  out == Ok(set_delta(chunk, Delta(Some(moved), None)))
              IN  Iter(StBegin(TRUE), <<out, out>>, "continue")
         ELSE Iter(StEnd, split_yields(chunk, content, FALSE), "continue")

\* a faulty variant of on_begin: a chunk without content is an error, as in Init
on_begin_requires_content(st, chunk) ==
    LET delta == chunk.choices[1].delta IN
    IF is_none(delta.content)
    THEN Iter(st, <<Err("reasoning_content or content is empty")>>, "return")
    ELSE LET content == unwrap(delta.content) IN
         IF ~contains(content, THINK_END_TAG)
         THEN LET moved == IF ~st.trimmed_follow_new_line
                           THEN trim_start(content) ELSE content
              IN  Iter(StBegin(TRUE),
                       <<Ok(set_delta(chunk, Delta(Some(moved), None)))>>,
                       "continue")
         ELSE Iter(StEnd, split_yields(chunk, content, FALSE), "continue")

\* a faulty variant of on_begin: trimmed_follow_new_line is left as it was
on_begin_keeps_flag(st, chunk) ==
    LET delta == chunk.choices[1].delta IN
    IF is_none(delta.content)
    THEN Iter(st, <<Ok(chunk)>>, "continue")
    ELSE LET content == unwrap(delta.content) IN
         IF ~contains(content, THINK_END_TAG)
         THEN LET moved == IF ~st.trimmed_follow_new_line
                           THEN trim_start(content) ELSE content
              IN  Iter(st,
                       <<Ok(set_delta(chunk, Delta(Some(moved), None)))>>,
                       "continue")
         ELSE Iter(StEnd, split_yields(chunk, content, FALSE), "continue")

\* ThinkTagState::Begin { trimmed_follow_new_line }
on_begin(st, chunk) ==
    LET delta == chunk.choices[1].delta IN
    IF is_none(delta.content)
    THEN Iter(st, <<Ok(chunk)>>, "continue")
    ELSE LET content == unwrap(delta.content) IN
         IF ~contains(content, THINK_END_TAG)
         THEN LET moved == IF ~st.trimmed_follow_new_line
                           THEN trim_start(content) ELSE content
              IN  Iter(StBegin(TRUE),
                       <<Ok(set_delta(chunk, Delta(Some(moved), None)))>>,
                       "continue")
         ELSE Iter(StEnd, split_yields(chunk, content, FALSE), "continue")

\* a faulty variant of on_pass: a chunk received in End or NoTag is classified again
on_pass_classifies_again(st, chunk) == on_init(chunk)

\* a faulty variant of on_pass: a begin tag met in End or NoTag opens a block
on_pass_reopens(st, chunk) ==
    LET delta == chunk.choices[1].delta IN
    IF is_none(delta.reasoning_content) /\ is_some(delta.content)
    THEN IF starts_with(unwrap(delta.content), THINK_BEGIN_TAG)
         THEN on_init(chunk)
         ELSE Iter(st, <<Ok(chunk)>>, "continue")
    ELSE Iter(st, <<Ok(chunk)>>, "continue")

\* ThinkTagState::End | ThinkTagState::NoTag
on_pass(st, chunk) == Iter(st, <<Ok(chunk)>>, "continue")

\* a faulty variant of iteration: a chunk with no choices is skipped
iteration_skips_no_choices(st, item) ==
    IF item.tag = "Err"
    THEN Iter(st, <<Err(item.err)>>, "return")
    ELSE IF item.chunk.choices = <<>>
    THEN Iter(st, <<>>, "continue")
    ELSE IF is_empty_chunk(item.chunk.choices[1].delta)
    THEN Iter(st, <<>>, "continue")
    ELSE IF st.tag = "Init" THEN on_init(item.chunk)
    ELSE IF st.tag = "Begin" THEN on_begin(st, item.chunk)
    ELSE on_pass(st, item.chunk)

\* the body of the while loop, for the item st.next() returned
iteration(st, item) ==
    IF item.tag = "Err"
    THEN Iter(st, <<Err(item.err)>>, "return")
    ELSE IF item.chunk.choices = <<>>
    THEN Iter(st, <<Err("empty choice")>>, "return")
    ELSE IF is_empty_chunk(item.chunk.choices[1].delta)
    THEN Iter(st, <<>>, "continue")
    ELSE IF st.tag = "Init" THEN on_init(item.chunk)
    ELSE IF st.tag = "Begin" THEN on_begin(st, item.chunk)
    ELSE on_pass(st, item.chunk)


(***************************************************************************)
(* The upstream stream: the items st.next() can return.                    *)
(***************************************************************************)
MaxChunks == 3

NL == <<"\n">>
ReasoningText ==
    <<"r", "e", "a", "s", "o", "n", "i", "n", "g", " ", "t", "e", "x", "t">>
FinalAnswer == <<"f", "i", "n", "a", "l", " ", "a", "n", "s", "w", "e", "r">>
EndTagHead == <<"<", "/", "t", "h", "i">>

Contents ==
    { <<>>,
      THINK_BEGIN_TAG,
      THINK_BEGIN_TAG \o NL,
      THINK_BEGIN_TAG \o ReasoningText,
      THINK_BEGIN_TAG \o NL \o ReasoningText \o THINK_END_TAG,
      THINK_BEGIN_TAG \o ReasoningText \o THINK_END_TAG \o NL \o FinalAnswer,
      NL \o THINK_BEGIN_TAG,
      ReasoningText,
      NL \o ReasoningText,
      EndTagHead,
      THINK_END_TAG,
      THINK_END_TAG \o FinalAnswer,
      ReasoningText \o THINK_END_TAG \o NL \o FinalAnswer \o THINK_END_TAG }

Deltas ==
    {Delta(None, c) : c \in {None} \cup {Some(x) : x \in Contents}}
    \cup { Delta(Some(<<>>), Some(<<>>)),
           Delta(Some(<<>>), None),
           Delta(Some(ReasoningText), None),
           Delta(Some(ReasoningText), Some(FinalAnswer)) }

\* the choices of a chunk: none, one, or two with a finish_reason on the first
ChoiceLists ==
    {<<>>}
    \cup {<<Choice(0, d, None)>> : d \in Deltas}
    \cup {<<Choice(0, Delta(None, Some(ReasoningText \o THINK_END_TAG)), Some("stop")),
            Choice(1, Delta(None, Some(THINK_BEGIN_TAG)), None)>>}

\* the n-th item of the stream; the chunk id is its position in the stream
Items(n) ==
    {Err("upstream")} \cup {Ok(Chunk(n, cs)) : cs \in ChoiceLists}

(***************************************************************************)
(* extract_cot as a generator.  pc = "next": suspended in st.next().await; *)
(* pc = "yield": suspended at a yield; pc = "done": returned.              *)
(***************************************************************************)
\* no request is being forwarded
fwdIdle ==
    /\ fpc = "none" /\ handler = "none" /\ method = "none" /\ path = "none"
    /\ headers = <<>> /\ streaming = FALSE /\ cot_parser = <<>>
    /\ upstream = <<>>

truncIdle ==
    /\ tpc = "idle" /\ kind = "none" /\ max_token = 0 /\ prompt = <<>>
    /\ messages = <<>> /\ token_list = <<>> /\ sum = 0 /\ tokens = <<>>
    /\ orig = <<>> /\ iters = 0

Init ==
    /\ state = StInit
    /\ pc = "next"
    /\ pending = <<>>
    /\ after = "continue"
    /\ inputs = <<>>
    /\ outputs = <<>>
    /\ groups = <<>>
    /\ pre = <<>>
    /\ truncIdle
    /\ fwdIdle

\* st.next() returns Some(item): the iteration runs up to its first yield,
\* or to its end when it yields nothing
Recv(item) ==
    /\ pc = "next"
    /\ LET r == iteration(state, item) IN
        /\ state' = r.state
        /\ inputs' = Append(inputs, item)
        /\ pre' = Append(pre, state)
        /\ after' = r.then
        /\ IF r.yields = <<>>
           THEN /\ pc' = "next"
                /\ pending' = <<>>
                /\ outputs' = outputs
                /\ groups' = Append(groups, <<>>)
           ELSE /\ pc' = "yield"
                /\ pending' = Tail(r.yields)
                /\ outputs' = Append(outputs, Head(r.yields))
                /\ groups' = Append(groups, <<Head(r.yields)>>)
    /\ UNCHANGED <<truncVars, fwdVars>>

\* a faulty variant of Resume: with a second chunk still to yield, the
\* generator goes back to st.next() first
Resume_reads_ahead ==
    /\ pc = "yield"
    /\ pc' = (IF after = "return" THEN "done" ELSE "next")
    /\ UNCHANGED <<pending, outputs, groups>>
    /\ UNCHANGED <<state, after, inputs, pre>>
    /\ UNCHANGED <<truncVars, fwdVars>>

\* the consumer polls again: the iteration goes on from its yield to the next
\* yield, to the continue (back to st.next()) or to the return
Resume ==
    /\ pc = "yield"
    /\ IF pending # <<>>
       THEN /\ pc' = "yield"
            /\ pending' = Tail(pending)
            /\ outputs' = Append(outputs, Head(pending))
            /\ groups' = [groups EXCEPT ![Len(groups)] = Append(@, Head(pending))]
       ELSE /\ pc' = (IF after = "return" THEN "done" ELSE "next")
            /\ UNCHANGED <<pending, outputs, groups>>
    /\ UNCHANGED <<state, after, inputs, pre>>
    /\ UNCHANGED <<truncVars, fwdVars>>

\* st.next() returns None: the while loop ends
StreamEnd ==
    /\ pc = "next"
    /\ pc' = "done"
    /\ UNCHANGED <<state, pending, after, inputs, outputs, groups, pre>>
    /\ UNCHANGED <<truncVars, fwdVars>>

Next ==
    \/ \E item \in Items(Len(inputs) + 1) : Len(inputs) < MaxChunks /\ Recv(item)
    \/ Resume
    \/ StreamEnd

Spec == Init /\ [][Next]_vars


(***************************************************************************)
(* The tokenizer (tiktoken_rs CoreBPE, used as encode / decode).  Texts    *)
(* are drawn over the characters "a" and "b"; the vocabulary has a token   *)
(* per character and one for the pair "ab", so token counts differ from    *)
(* character counts.  The texts are ASCII: from_utf8_lossy changes nothing.*)
(***************************************************************************)
token_bytes(rank) ==
    IF rank = 0 THEN <<"a">> ELSE IF rank = 1 THEN <<"b">> ELSE <<"a", "b">>

\* bpe.encode_with_special_tokens
RECURSIVE encode_with_special_tokens(_)
encode_with_special_tokens(text) ==
    IF text = <<>> THEN <<>>
    ELSE IF Len(text) >= 2 /\ text[1] = "a" /\ text[2] = "b"
    THEN <<2>> \o encode_with_special_tokens(Tail(Tail(text)))
    ELSE <<(IF text[1] = "a" THEN 0 ELSE 1)>>
         \o encode_with_special_tokens(Tail(text))

\* bpe._decode_native_and_split, each piece pushed onto the content
RECURSIVE decode(_)
decode(ranks) ==
    IF ranks = <<>> THEN <<>> ELSE token_bytes(Head(ranks)) \o decode(Tail(ranks))

(***************************************************************************)
(* lib.rs: truncate_message                                                *)
(***************************************************************************)
\* tokens.drain(..n): what is left of the queue (n <= len)
drain_front(toks, n) == SubSeq(toks, n + 1, Len(toks))

\* a faulty variant of truncate_message: trims the tokens down to max_token of them
truncate_message_to_budget(n, toks) ==
    IF n > Len(toks)
    THEN [panic |-> TRUE, tokens |-> toks, content |-> <<>>]
    ELSE [panic |-> FALSE,
          tokens |-> drain_front(toks, Len(toks) - n),
          content |-> decode(drain_front(toks, Len(toks) - n))]

\* truncate_message(bpe, n, content, toks): the drain panics when n > len;
\* else the content becomes the decoding of what the drain leaves
truncate_message(n, toks) ==
    IF n > Len(toks)
    THEN [panic |-> TRUE, tokens |-> toks, content |-> <<>>]
    ELSE [panic |-> FALSE,
          tokens |-> drain_front(toks, n),
          content |-> decode(drain_front(toks, n))]

(***************************************************************************)
(* lib.rs: truncate_messages                                               *)
(***************************************************************************)
\* a faulty variant of truncate_single: a text of exactly budget tokens is cut
truncate_single_strict(message, budget) ==
    LET toks == encode_with_special_tokens(message) IN
    IF Len(toks) < budget
    THEN [panic |-> FALSE, tokens |-> <<>>, content |-> message]
    ELSE truncate_message(budget, toks)

\* MessageType::Single: the outcome for a text and a budget
truncate_single(message, budget) ==
    LET toks == encode_with_special_tokens(message) IN
    IF Len(toks) <= budget
    THEN [panic |-> FALSE, tokens |-> <<>>, content |-> message]
    ELSE truncate_message(budget, toks)

\* a faulty variant of sum_len: every message counts for one token more
RECURSIVE sum_len_counts_messages(_)
sum_len_counts_messages(list) ==
    IF list = <<>> THEN 0
    ELSE Len(Head(list)) + 1 + sum_len_counts_messages(Tail(list))

\* token_list.iter().map(|tokens| tokens.len()).sum()
RECURSIVE sum_len(_)
sum_len(list) == IF list = <<>> THEN 0 ELSE Len(Head(list)) + sum_len(Tail(list))

\* a faulty variant of pop_front: pops the newest message
pop_back(queue) == SubSeq(queue, 1, Len(queue) - 1)

\* a faulty variant of pop_front: the front is read but not removed
pop_front_keeps(queue) == queue

\* VecDeque::pop_front: what is left of the queue
pop_front(queue) == Tail(queue)

\* a faulty variant of new_front_len: drains the budget, as the single-text path does
new_front_len_is_budget(s, budget) == budget

\* a faulty variant of new_front_len: the budget is not taken off the sum
new_front_len_is_sum(s, budget) == s

\* let new_len = sum - max_token
new_front_len(s, budget) == s - budget

(***************************************************************************)
(* The requests: a prompt (handle_completion) or a conversation            *)
(* (handle_chat), and the budget input_max_token.                          *)
(***************************************************************************)
MaxMsgs == 3
MaxChars == 5
MaxBudget == 4

\* the texts of at most n characters
Texts(n) == UNION {[1..k -> {"a", "b"}] : k \in 0..n}
\* the sequences of m texts of at most n characters in all
RECURSIVE TextLists(_, _)
TextLists(m, n) ==
    IF m = 0 THEN {<<>>}
    ELSE UNION { {<<text>> \o rest : rest \in TextLists(m - 1, n - Len(text))} :
                 text \in Texts(n) }
Message(role, content) == [role |-> role, content |-> content]
\* the role of the i-th message of a conversation
RoleAt(i) == IF i = 1 THEN "system" ELSE IF i % 2 = 0 THEN "user" ELSE "assistant"
Conversations ==
    UNION { { [i \in 1..m |-> Message(RoleAt(i), texts[i])] :
                texts \in TextLists(m, MaxChars) } : m \in 0..MaxMsgs }

cotIdle ==
    /\ state = StInit /\ pc = "none" /\ pending = <<>> /\ after = "continue"
    /\ inputs = <<>> /\ outputs = <<>> /\ groups = <<>> /\ pre = <<>>

InitTruncate ==
    /\ cotIdle
    /\ fwdIdle
    /\ tpc = "call"
    /\ max_token \in 0..MaxBudget
    /\ kind \in {"Single", "Multiple"}
    /\ IF kind = "Single"
       THEN prompt \in Texts(MaxChars) /\ messages = <<>> /\ orig = prompt
       ELSE prompt = <<>> /\ messages \in Conversations /\ orig = messages
    /\ token_list = <<>>
    /\ sum = 0
    /\ tokens = <<>>
    /\ iters = 0

\* truncate_messages(bpe, MessageType::Single(&mut payload.prompt), max_token)
TruncateSingle ==
    /\ tpc = "call" /\ kind = "Single"
    /\ LET r == truncate_single(prompt, max_token) IN
        /\ tpc' = (IF r.panic THEN "panic" ELSE "done")
        /\ prompt' = r.content
        /\ tokens' = r.tokens
    /\ UNCHANGED <<kind, max_token, messages, token_list, sum, orig, iters>>
    /\ UNCHANGED <<cotVars, fwdVars>>

\* truncate_messages(bpe, MessageType::Multiple(..), max_token), up to the loop
TruncateMultiple ==
    /\ tpc = "call" /\ kind = "Multiple"
    /\ token_list' =
        [i \in 1..Len(messages) |-> encode_with_special_tokens(messages[i].content)]
    /\ sum' = sum_len(token_list')
    /\ tpc' = (IF sum' <= max_token THEN "done" ELSE "loop")
    /\ UNCHANGED <<kind, max_token, prompt, messages, tokens, orig, iters>>
    /\ UNCHANGED <<cotVars, fwdVars>>

\* one iteration of `while sum > max_token`
LoopIter ==
    /\ tpc = "loop"
    /\ UNCHANGED <<kind, max_token, prompt, orig>>
    /\ UNCHANGED <<cotVars, fwdVars>>
    /\ IF ~(sum > max_token)
       THEN /\ tpc' = "done"
            /\ UNCHANGED <<messages, token_list, sum, tokens, iters>>
       ELSE /\ iters' = iters + 1
            /\ IF token_list = <<>>
               THEN \* assert!(!token_list.is_empty())
                    /\ tpc' = "panic"
                    /\ UNCHANGED <<messages, token_list, sum, tokens>>
               ELSE LET token_len == Len(token_list[1]) IN
                    IF token_len > sum
                    THEN \* sum - token_len below zero: a panic or a wrapped usize
                         /\ tpc' = "underflow"
                         /\ UNCHANGED <<messages, token_list, sum, tokens>>
                    ELSE IF sum - token_len > max_token
                    THEN IF Len(token_list) > 1
                         THEN /\ sum' = sum - token_len
                              /\ messages' = pop_front(messages)
                              /\ token_list' = pop_front(token_list)
                              /\ tpc' = "loop"
                              /\ UNCHANGED tokens
                         ELSE LET r == truncate_single(messages[1].content, max_token)
                              IN  /\ tpc' = (IF r.panic THEN "panic" ELSE "done")
                                  /\ messages' =
                                        [messages EXCEPT ![1].content = r.content]
                                  /\ tokens' = r.tokens
                                  /\ UNCHANGED <<token_list, sum>>
                    ELSE LET new_len == new_front_len(sum, max_token)
                             r == truncate_message(new_len, token_list[1])
                         IN  /\ tpc' = (IF r.panic THEN "panic" ELSE "done")
                             /\ token_list' = pop_front(token_list)
                             /\ messages' = [messages EXCEPT ![1].content = r.content]
                             /\ tokens' = r.tokens
                             /\ UNCHANGED sum

NextTruncate ==
    \/ TruncateSingle
    \/ TruncateMultiple
    \/ LoopIter

SpecTruncate == InitTruncate /\ [][NextTruncate]_vars

\* truncate_messages runs to its return once called: the handler awaits
\* nothing inside it
FairSpecTruncate == SpecTruncate /\ WF_vars(NextTruncate)

(***************************************************************************)
(* The request sent upstream.  A HeaderMap is a function from header names *)
(* to the sequence of the values of that name, <<>> when the name is       *)
(* absent.  The body is left out: no header is computed from it.           *)
(***************************************************************************)
MaxValues == 2

AUTHORIZATION == "authorization"
CONTENT_TYPE == "content-type"
COOKIE == "cookie"
HeaderNames == {AUTHORIZATION, CONTENT_TYPE, COOKIE}
\* the values a client sends, and the value the gateway sets itself
HeaderValues == {"v1", "v2"}
APPLICATION_JSON == "application/json"

ValueLists(n) == UNION {[1..m -> HeaderValues] : m \in 0..n}
HeaderMaps == [HeaderNames -> ValueLists(MaxValues)]
\* HeaderMap::new
EmptyHeaderMap == [n \in HeaderNames |-> <<>>]

\* HeaderMap::into_iter, the items of one name: the name comes with the
\* first value only, the further values of the name come with None
into_iter_of(map, name) ==
    [i \in 1..Len(map[name]) |->
        [k |-> IF i = 1 THEN Some(name) ELSE None, v |-> map[name][i]]]
into_iter(map) ==
    into_iter_of(map, AUTHORIZATION) \o into_iter_of(map, CONTENT_TYPE)
        \o into_iter_of(map, COOKIE)

\* collect::<HeaderMap>() of (name, value) pairs
RECURSIVE collect(_)
collect(pairs) ==
    IF pairs = <<>> THEN EmptyHeaderMap
    ELSE LET last == pairs[Len(pairs)]
             map == collect(SubSeq(pairs, 1, Len(pairs) - 1))
         IN  [map EXCEPT ![last.k] = Append(@, last.v)]

\* retain_headers
retain_headers(map) ==
    LET kept == SelectSeq(into_iter(map), LAMBDA e : e.k = Some(AUTHORIZATION))
    IN  collect([i \in 1..Len(kept) |-> [k |-> AUTHORIZATION, v |-> kept[i].v]])

\* RequestBuilder::headers: the values of each name given replace the
\* request's values of that name
with_headers(request, map) ==
    [request EXCEPT !.headers =
        [n \in HeaderNames |-> IF map[n] # <<>> THEN map[n] ELSE @[n]]]
\* RequestBuilder::header: one more value for the name
with_header(request, name, value) ==
    [request EXCEPT !.headers[name] = Append(@, value)]
\* RequestBuilder::json: sets the content type unless the request has one
with_json(request) ==
    IF request.headers[CONTENT_TYPE] = <<>>
    THEN [request EXCEPT !.headers[CONTENT_TYPE] = <<APPLICATION_JSON>>]
    ELSE request
\* Client::request / Request::new
new_request(m, url) == [method |-> m, path |-> url, headers |-> EmptyHeaderMap]

\* sse::send_stream_request: the request the EventSource sends
send_stream_request(url) ==
    with_json(with_header(new_request("POST", url), CONTENT_TYPE, APPLICATION_JSON))

\* forward_request: the request sent to the backend
forward_request(state_cot_parser, url, m, map, is_streaming) ==
    LET retained == retain_headers(map) IN
    IF is_streaming /\ state_cot_parser = Some("Deepseek")
    THEN send_stream_request(url)
    ELSE with_json(with_headers(new_request(m, url), retained))

\* the inbound requests: a POST on one of the two routes with a handler, or
\* anything else, which the router gives to proxy_handler
InitForward ==
    /\ cotIdle
    /\ truncIdle
    /\ fpc = "request"
    /\ upstream = <<>>
    /\ headers \in HeaderMaps
    /\ cot_parser \in {None, Some("Deepseek")}
    /\ handler \in {"handle_completion", "handle_chat", "proxy_handler"}
    /\ IF handler = "handle_completion"
       THEN method = "POST" /\ path = "/v1/completions" /\ streaming \in BOOLEAN
       ELSE IF handler = "handle_chat"
       THEN method = "POST" /\ path = "/v1/chat/completions"
            /\ streaming \in BOOLEAN
       ELSE /\ method \in {"GET", "DELETE"}
            /\ path \in {"/v1/models", "/v1/chat/completions"}
            /\ streaming = FALSE

\* handle_completion: forward_request(state, "/v1/completions", POST, ...)
HandleCompletion ==
    /\ fpc = "request" /\ handler = "handle_completion"
    /\ upstream' = forward_request(cot_parser, "/v1/completions", "POST",
                                   headers, streaming)
    /\ fpc' = "sent"
    /\ UNCHANGED <<handler, method, path, headers, streaming, cot_parser>>
    /\ UNCHANGED <<cotVars, truncVars>>

\* handle_chat: forward_request(state, "/v1/chat/completions", POST, ...)
HandleChat ==
    /\ fpc = "request" /\ handler = "handle_chat"
    /\ upstream' = forward_request(cot_parser, "/v1/chat/completions", "POST",
                                   headers, streaming)
    /\ fpc' = "sent"
    /\ UNCHANGED <<handler, method, path, headers, streaming, cot_parser>>
    /\ UNCHANGED <<cotVars, truncVars>>

\* proxy_handler: the request goes on with its method, path and body
ProxyHandler ==
    /\ fpc = "request" /\ handler = "proxy_handler"
    /\ upstream' = with_headers(new_request(method, path), retain_headers(headers))
    /\ fpc' = "sent"
    /\ UNCHANGED <<handler, method, path, headers, streaming, cot_parser>>
    /\ UNCHANGED <<cotVars, truncVars>>

NextForward ==
    \/ HandleCompletion
    \/ HandleChat
    \/ ProxyHandler

SpecForward == InitForward /\ [][NextForward]_vars

(***************************************************************************)
(* Vocabulary of the extract_cot properties, over the histories.           *)
(***************************************************************************)
\* the k-th input is a chunk with at least one choice
IsChunk(k) == inputs[k].tag = "Ok" /\ inputs[k].chunk.choices # <<>>
\* the k-th input ends the transformation: an upstream error or no choices
IsFatal(k) == ~IsChunk(k)
\* the error item a fatal input must produce
FatalError(k) ==
    IF inputs[k].tag = "Err" THEN inputs[k] ELSE Err("empty choice")
\* the delta and the content of the k-th input (a chunk)
InDelta(k) == inputs[k].chunk.choices[1].delta
HasContent(k) == is_some(InDelta(k).content)
InContent(k) == unwrap(InDelta(k).content)
\* the k-th input is a heartbeat: both fields present and empty
IsHeartbeat(k) ==
    /\ InDelta(k).reasoning_content = Some(<<>>)
    /\ InDelta(k).content = Some(<<>>)
\* every output item derived from the k-th input has been yielded
GroupDone(k) == k < Len(inputs) \/ pending = <<>>
\* the ThinkTagState after the iteration of the k-th input
Post(k) == IF k < Len(inputs) THEN pre[k + 1] ELSE state
\* the delta of an output item that is a chunk
OutDelta(item) == item.chunk.choices[1].delta
ReasoningOnly(item) ==
    item.tag = "Ok" /\ is_some(OutDelta(item).reasoning_content)
    /\ is_none(OutDelta(item).content)
ContentOnly(item) ==
    item.tag = "Ok" /\ is_none(OutDelta(item).reasoning_content)
    /\ is_some(OutDelta(item).content)
RECURSIVE Flatten(_)
Flatten(ss) == IF ss = <<>> THEN <<>> ELSE Head(ss) \o Flatten(Tail(ss))
\* the end tag occurs in t at offset b
EndTagAt(t, b) == SubSeq(t, b + 1, b + Len(THINK_END_TAG)) = THINK_END_TAG
HasEndTag(t) == \E b \in 0..(Len(t) - Len(THINK_END_TAG)) : EndTagAt(t, b)
\* the offset of the first end tag of t (t has one)
FirstEndTag(t) ==
    CHOOSE b \in 0..(Len(t) - Len(THINK_END_TAG)) :
        EndTagAt(t, b) /\ \A j \in 0..(b - 1) : ~EndTagAt(t, j)
\* the k-th input is a chunk that is classified in Init as opening a think
\* block: no reasoning, content starting with the begin tag
Opens(k) ==
    /\ IsChunk(k) /\ ~IsHeartbeat(k)
    /\ is_none(InDelta(k).reasoning_content)
    /\ HasContent(k) /\ starts_with(InContent(k), THINK_BEGIN_TAG)
\* the k-th input was received in Init and is the first one classified
FirstClassified(k) ==
    /\ IsChunk(k) /\ ~IsHeartbeat(k)
    /\ \A j \in 1..(k - 1) : IsChunk(j) /\ IsHeartbeat(j)
\* the k-th input is a chunk whose content holds the complete end tag
Closes(k) == IsChunk(k) /\ HasContent(k) /\ HasEndTag(InContent(k))

(***************************************************************************)
(* C1: an upstream error, or a chunk with no choices, received in any      *)
(* ThinkTagState, yields exactly one error item (the upstream error, or    *)
(* "empty choice"); that item is the last of the output sequence, the      *)
(* generator returns after it and takes no further input, and the items    *)
(* yielded for the earlier inputs are the output sequence before it.       *)
(***************************************************************************)
C1_FatalItemEndsOutput ==
    \A k \in 1..Len(inputs) :
        IsFatal(k) =>
            /\ k = Len(inputs)
            /\ groups[k] = <<FatalError(k)>>
            /\ outputs = Flatten(SubSeq(groups, 1, k - 1)) \o <<FatalError(k)>>
            /\ pending = <<>>
            /\ pc \in {"yield", "done"}
            /\ after = "return"
            /\ state = pre[k]

\* an empty-choices chunk received inside a think block, after two chunks
\* were yielded, and the generator has returned
C1_Witness ==
    /\ Len(inputs) = 3
    /\ inputs[3].tag = "Ok" /\ inputs[3].chunk.choices = <<>>
    /\ pre[3].tag = "Begin"
    /\ Len(outputs) = 3
    /\ pc = "done"

(***************************************************************************)
(* C2 (as claimed): in NoTag or End every input chunk with non-empty       *)
(* choices yields exactly itself.                                          *)
(***************************************************************************)
C2_PassThroughEveryChunk ==
    \A k \in 1..Len(inputs) :
        (IsChunk(k) /\ pre[k].tag \in {"End", "NoTag"} /\ GroupDone(k)) =>
            groups[k] = <<inputs[k]>>

(***************************************************************************)
(* C2 (amended): in NoTag or End every input chunk with non-empty choices  *)
(* yields exactly itself and leaves the state as it is, except a chunk     *)
(* whose reasoning and content are both present and empty, which yields    *)
(* nothing.                                                                *)
(***************************************************************************)
C2_PassThroughExceptHeartbeat ==
    \A k \in 1..Len(inputs) :
        (IsChunk(k) /\ pre[k].tag \in {"End", "NoTag"} /\ GroupDone(k)) =>
            /\ groups[k] = IF IsHeartbeat(k) THEN <<>> ELSE <<inputs[k]>>
            /\ Post(k) = pre[k]

\* after the block closed, a chunk that holds the end tag and then a chunk
\* that starts with the begin tag both came out unchanged
C2_Witness ==
    /\ Len(inputs) = 3 /\ pending = <<>>
    /\ pre[2].tag = "End" /\ pre[1].tag = "Init"
    /\ Opens(1)
    /\ IsChunk(2) /\ HasContent(2) /\ HasEndTag(InContent(2))
    /\ groups[2] = <<inputs[2]>>
    /\ IsChunk(3) /\ HasContent(3) /\ starts_with(InContent(3), THINK_BEGIN_TAG)
    /\ groups[3] = <<inputs[3]>>


\* the k-th input is the chunk that closes the think block: received in Begin
\* with the end tag in its content, or in Init opening and closing the block
ClosesBlock(k) ==
    /\ Closes(k) /\ ~IsHeartbeat(k)
    /\ \/ pre[k].tag = "Begin"
       \/ pre[k].tag = "Init" /\ Opens(k)
\* the text after the first end tag of the content of the k-th input
AfterEndTag(k) ==
    SubSeq(InContent(k), FirstEndTag(InContent(k)) + Len(THINK_END_TAG) + 1,
           Len(InContent(k)))
\* the text before the first end tag of the content of the k-th input
BeforeEndTag(k) == SubSeq(InContent(k), 1, FirstEndTag(InContent(k)))

(***************************************************************************)
(* C3: when the end tag is exactly at the end of the chunk that closes the *)
(* think block, opened in the same chunk (Init) or earlier (Begin), that   *)
(* chunk yields one item only, the reasoning-only chunk.                   *)
(***************************************************************************)
C3_EndTagAtEndYieldsOneItem ==
    \A k \in 1..Len(inputs) :
        (ClosesBlock(k) /\ AfterEndTag(k) = <<>> /\ GroupDone(k)) =>
            /\ Len(groups[k]) = 1
            /\ ReasoningOnly(groups[k][1])

(***************************************************************************)
(* C4: a chunk received in Begin whose content holds the end tag followed  *)
(* by further text sets the state to End and yields exactly two items:     *)
(* the chunk with reasoning = the text before the first end tag and no     *)
(* content, then the chunk with no reasoning and content = all the text    *)
(* after the first end tag; the other fields of the chunk are kept.        *)
(***************************************************************************)
C4_BeginSplitsAtFirstEndTag ==
    \A k \in 1..Len(inputs) :
        (ClosesBlock(k) /\ pre[k].tag = "Begin" /\ AfterEndTag(k) # <<>>) =>
            /\ Post(k) = StEnd
            /\ GroupDone(k) =>
                groups[k] =
                    << Ok(set_delta(inputs[k].chunk,
                                    Delta(Some(BeforeEndTag(k)), None))),
                       Ok(set_delta(inputs[k].chunk,
                                    Delta(None, Some(AfterEndTag(k))))) >>

\* the closing chunk held the end tag twice, with whitespace after the first
C4_Witness ==
    /\ Len(inputs) = 2 /\ pending = <<>> /\ pc = "next"
    /\ pre[2].tag = "Begin" /\ ClosesBlock(2)
    /\ HasEndTag(AfterEndTag(2))
    /\ is_whitespace(Head(AfterEndTag(2)))
    /\ BeforeEndTag(2) # <<>>
    /\ Len(groups[2]) = 2
    /\ state = StEnd

\* the k-th input lies in the span from the chunk that opens the think block
\* (the first classified chunk) up to, not including, the first chunk whose
\* content holds the complete end tag
InOpenSpan(k) ==
    /\ IsChunk(k)
    /\ \E f \in 1..k :
        /\ FirstClassified(f) /\ Opens(f)
        /\ \A j \in f..k : IsChunk(j) /\ ~Closes(j)

(***************************************************************************)
(* C5 (as claimed): every chunk yielded from the opening chunk up to the   *)
(* first chunk that holds the complete end tag has its reasoning present   *)
(* and its content absent.                                                 *)
(***************************************************************************)
C5_OpenSpanReasoningOnly ==
    \A k \in 1..Len(inputs) :
        InOpenSpan(k) =>
            \A i \in 1..Len(groups[k]) : ReasoningOnly(groups[k][i])

(***************************************************************************)
(* C5 (amended): every chunk yielded in that span has its content absent;  *)
(* its reasoning is present when the input chunk carried content, and a    *)
(* chunk without content is yielded unchanged, reasoning absent or not.    *)
(***************************************************************************)
C5_OpenSpanContentAbsent ==
    \A k \in 1..Len(inputs) :
        InOpenSpan(k) =>
            /\ Post(k).tag = "Begin"
            /\ \A i \in 1..Len(groups[k]) :
                /\ groups[k][i].tag = "Ok"
                /\ is_none(OutDelta(groups[k][i]).content)
                /\ HasContent(k) => ReasoningOnly(groups[k][i])
                /\ ~HasContent(k) => groups[k][i] = inputs[k]
            /\ (GroupDone(k) /\ ~IsHeartbeat(k)) => Len(groups[k]) = 1

\* three chunks in the span: the opening one, one with a fragment of the end
\* tag, and one with neither reasoning nor content, yielded as it is
C5_Witness ==
    /\ Len(inputs) = 3 /\ pending = <<>>
    /\ InOpenSpan(3)
    /\ HasContent(2) /\ InContent(2) = EndTagHead
    /\ InDelta(3) = Delta(None, None)
    /\ Len(outputs) = 3
    /\ outputs[3] = inputs[3]
    /\ ReasoningOnly(outputs[2])

\* the k-th input comes at or after the chunk that opened the think block
AfterOpening(k) ==
    \E f \in 1..k : FirstClassified(f) /\ Opens(f)
BothPopulated(item) ==
    item.tag = "Ok" /\ is_some(OutDelta(item).reasoning_content)
    /\ is_some(OutDelta(item).content)

(***************************************************************************)
(* C6 (as claimed): once a chunk has opened a think block, every delta     *)
(* yielded for the rest of the response, in Begin and in End, has at most  *)
(* one of reasoning and content present.                                   *)
(***************************************************************************)
C6_NeverBothAfterOpening ==
    \A k \in 1..Len(inputs) :
        AfterOpening(k) =>
            \A i \in 1..Len(groups[k]) : ~BothPopulated(groups[k][i])

(***************************************************************************)
(* C6 (amended): once a chunk has opened a think block, every delta        *)
(* yielded for a chunk received in Init or Begin has at most one of        *)
(* reasoning and content present; a chunk received in End is yielded       *)
(* unchanged, so its delta has both present exactly when upstream sent     *)
(* both.                                                                   *)
(***************************************************************************)
C6_NeverBothUntilEnd ==
    \A k \in 1..Len(inputs) :
        AfterOpening(k) =>
            \A i \in 1..Len(groups[k]) :
                /\ pre[k].tag \in {"Init", "Begin"} => ~BothPopulated(groups[k][i])
                /\ BothPopulated(groups[k][i]) =>
                    (pre[k].tag = "End" /\ groups[k][i] = inputs[k])

\* in Begin a chunk with both fields came out with reasoning only, the
\* closing chunk came out as two chunks, none with both fields
C6_Witness ==
    /\ Len(inputs) = 3 /\ pending = <<>>
    /\ AfterOpening(1)
    /\ pre[2].tag = "Begin" /\ IsChunk(2)
    /\ is_some(InDelta(2).reasoning_content) /\ HasContent(2)
    /\ Len(groups[2]) = 1 /\ ReasoningOnly(groups[2][1])
    /\ pre[3].tag = "Begin" /\ ClosesBlock(3)
    /\ Len(groups[3]) = 2
    /\ ReasoningOnly(groups[3][1]) /\ ContentOnly(groups[3][2])

\* the deltas of the chunks of the output sequence
OutDeltas == [i \in 1..Len(outputs) |-> OutDelta(outputs[i])]
\* the response of three content chunks "<think>\n", "reasoning text",
\* "</think>final answer" has been transformed and all its items yielded
ScenarioDone ==
    /\ Len(inputs) = 3 /\ pending = <<>>
    /\ \A k \in 1..3 : IsChunk(k)
    /\ InDelta(1) = Delta(None, Some(THINK_BEGIN_TAG \o NL))
    /\ InDelta(2) = Delta(None, Some(ReasoningText))
    /\ InDelta(3) = Delta(None, Some(THINK_END_TAG \o FinalAnswer))
\* the k-th input opens a think block with only whitespace after the tag
OpensWithBlank(k) ==
    /\ FirstClassified(k) /\ Opens(k)
    /\ trim_start(Tail_from(InContent(k), Len(THINK_BEGIN_TAG))) = <<>>

(***************************************************************************)
(* C7 (as claimed): an opening chunk with nothing but whitespace after the *)
(* begin tag yields no item, and the three-chunk response yields exactly   *)
(* reasoning "reasoning text", reasoning "", content "final answer".       *)
(***************************************************************************)
C7_BlankOpeningSuppressed ==
    /\ \A k \in 1..Len(inputs) : OpensWithBlank(k) => groups[k] = <<>>
    /\ ScenarioDone =>
        OutDeltas = << Delta(Some(ReasoningText), None),
                       Delta(Some(<<>>), None),
                       Delta(None, Some(FinalAnswer)) >>

(***************************************************************************)
(* C7 (amended): an opening chunk with nothing but whitespace after the    *)
(* begin tag yields one chunk with reasoning "" and no content, and the    *)
(* three-chunk response yields exactly reasoning "", reasoning             *)
(* "reasoning text", reasoning "", content "final answer".                 *)
(***************************************************************************)
C7_BlankOpeningYieldsEmptyReasoning ==
    /\ \A k \in 1..Len(inputs) :
        OpensWithBlank(k) =>
            groups[k] = <<Ok(set_delta(inputs[k].chunk, Delta(Some(<<>>), None)))>>
    /\ ScenarioDone =>
        OutDeltas = << Delta(Some(<<>>), None),
                       Delta(Some(ReasoningText), None),
                       Delta(Some(<<>>), None),
                       Delta(None, Some(FinalAnswer)) >>

\* the three-chunk response has been transformed, into four chunks
C7_Witness == ScenarioDone /\ Len(outputs) = 4 /\ pc = "next"


(***************************************************************************)
(* Vocabulary of the truncation properties.                                *)
(***************************************************************************)
\* the token count of a text, and of the contents of a message sequence
TokenCount(text) == Len(encode_with_special_tokens(text))
RECURSIVE TotalTokens(_)
TotalTokens(msgs) ==
    IF msgs = <<>> THEN 0
    ELSE TokenCount(Head(msgs).content) + TotalTokens(Tail(msgs))
\* the last n tokens of a token sequence
LastTokens(toks, n) == SubSeq(toks, Len(toks) - n + 1, Len(toks))
\* the conversation was over the budget and its truncation has returned
ConversationTruncated ==
    tpc = "done" /\ kind = "Multiple" /\ TotalTokens(orig) > max_token
\* the number of messages dropped from the front
Dropped == Len(orig) - Len(messages)

(***************************************************************************)
(* C8: for every conversation whose total token count exceeds the budget,  *)
(* after truncation the kept tokens of the trimmed front message plus the  *)
(* tokens of the later retained messages number exactly the budget.        *)
(***************************************************************************)
C8_TruncatedSumIsBudget ==
    ConversationTruncated =>
        /\ messages # <<>>
        /\ messages[1].content = decode(tokens)
        /\ Len(tokens) + TotalTokens(Tail(messages)) = max_token
        /\ Len(tokens) + TotalTokens(Tail(messages)) <= max_token

\* a conversation of three messages, the oldest dropped, the second cut to
\* a part of its tokens, the third kept
C8_Witness ==
    /\ ConversationTruncated
    /\ Len(orig) = 3 /\ Len(messages) = 2
    /\ tokens # <<>>
    /\ Len(tokens) < TokenCount(orig[2].content)
    /\ TokenCount(messages[2].content) > 0

(***************************************************************************)
(* C9: conversation truncation removes from the oldest end only: at every  *)
(* point the messages are a contiguous suffix of the original sequence,    *)
(* every message after the first retained one is unchanged, and the first  *)
(* retained one keeps its role and holds the decoding of a tail of its     *)
(* original tokens; so at most one message is partially truncated.         *)
(***************************************************************************)
C9_OnlyOldestEndRemoved ==
    (kind = "Multiple" /\ tpc \in {"loop", "done"}) =>
        /\ Dropped \in 0..Len(orig)
        /\ \A i \in 2..Len(messages) : messages[i] = orig[Dropped + i]
        /\ messages # <<>> =>
            /\ messages[1].role = orig[Dropped + 1].role
            /\ \E n \in 0..TokenCount(orig[Dropped + 1].content) :
                messages[1].content =
                    decode(LastTokens(
                        encode_with_special_tokens(orig[Dropped + 1].content), n))

\* the oldest message dropped, the second (a user message) cut to a proper,
\* non-empty tail that differs from its head, the third kept
C9_Witness ==
    /\ ConversationTruncated
    /\ Len(orig) = 3 /\ Dropped = 1
    /\ messages[1].role = "user"
    /\ messages[1].content # <<>>
    /\ messages[1].content # orig[2].content
    /\ orig[2].content[1] # orig[2].content[Len(orig[2].content)]
    /\ messages[2] = orig[3] /\ orig[3].content # <<>>

(***************************************************************************)
(* C10: single-text truncation of a text with n tokens and budget B,       *)
(* n > B, replaces the text by the decoding of tokens[B..n]; the kept      *)
(* tokens are within the budget if and only if n <= 2B.                    *)
(***************************************************************************)
C10_SingleDropsFirstBudgetTokens ==
    (tpc = "done" /\ kind = "Single" /\ TokenCount(orig) > max_token) =>
        LET toks == encode_with_special_tokens(orig)
            n == Len(toks)
        IN  /\ tokens = SubSeq(toks, max_token + 1, n)
            /\ Len(tokens) = n - max_token
            /\ prompt = decode(SubSeq(toks, max_token + 1, n))
            /\ (Len(tokens) <= max_token) <=> (n <= 2 * max_token)

\* a prompt of more than 2B tokens, B > 0: the result is still over budget
C10_Witness ==
    /\ tpc = "done" /\ kind = "Single"
    /\ max_token > 0
    /\ TokenCount(orig) > 2 * max_token
    /\ TokenCount(prompt) > max_token
    /\ prompt # orig


(***************************************************************************)
(* C11: truncation changes nothing when the input fits: a conversation     *)
(* whose total token count is at most the budget keeps every message, role *)
(* and content, and never enters the loop; a text whose token count is at  *)
(* most the budget is left as it is.                                       *)
(***************************************************************************)
C11_NoOpWhenWithinBudget ==
    /\ (kind = "Multiple" /\ TotalTokens(orig) <= max_token) =>
        /\ messages = orig
        /\ tpc \in {"call", "done"}
        /\ iters = 0
    /\ (kind = "Single" /\ TokenCount(orig) <= max_token) =>
        /\ prompt = orig
        /\ tpc \in {"call", "done"}

\* a prompt of exactly as many tokens as the budget, more characters than
\* tokens, has been through truncation
C11_Witness ==
    /\ tpc = "done" /\ kind = "Single"
    /\ max_token > 0
    /\ TokenCount(orig) = max_token
    /\ Len(orig) > max_token
    /\ prompt = orig

(***************************************************************************)
(* C12: the conversation truncation loop terminates: every iteration       *)
(* either drops one message from the front and goes on, or returns, so the *)
(* loop runs at most as many iterations as the conversation had messages,  *)
(* and truncation reaches its return.                                      *)
(***************************************************************************)
C12_LoopTerminates ==
    /\ <>(tpc \notin {"call", "loop"})
    /\ [](kind = "Multiple" => iters <= Len(orig))
    /\ [][ (tpc = "loop" /\ tpc' = "loop") =>
            /\ messages' = Tail(messages)
            /\ Len(token_list') = Len(token_list) - 1
            /\ iters' = iters + 1 ]_vars

\* a conversation of three messages took three iterations: two drops and
\* the cut of the last message
C12_Witness ==
    /\ tpc = "done" /\ kind = "Multiple"
    /\ Len(orig) = 3
    /\ iters = 3
    /\ Len(messages) = 1


(***************************************************************************)
(* C13: the output sequence is the concatenation, in input order, of the   *)
(* groups of items yielded for each input; every item of the group of the  *)
(* k-th input that is a chunk is made from that input (it carries its id); *)
(* a group holds zero, one or two items, and two only for the chunk that   *)
(* closes the think block.                                                 *)
(***************************************************************************)
C13_OutputIsGroupsInOrder ==
    /\ Len(groups) = Len(inputs)
    /\ outputs = Flatten(groups)
    /\ \A k \in 1..Len(inputs) :
        /\ Len(groups[k]) <= 2
        /\ Len(groups[k]) = 2 => ClosesBlock(k)
        /\ \A i \in 1..Len(groups[k]) :
            IF inputs[k].tag = "Ok" /\ groups[k][i].tag = "Ok"
            THEN groups[k][i].chunk.id = inputs[k].chunk.id
            ELSE i = 1 /\ k = Len(inputs)

\* groups of one, zero and two items in one response: the opening chunk, a
\* heartbeat, the closing chunk
C13_Witness ==
    /\ Len(inputs) = 3 /\ pending = <<>>
    /\ Len(groups[1]) = 1 /\ Opens(1)
    /\ Len(groups[2]) = 0
    /\ Len(groups[3]) = 2 /\ pre[3].tag = "Begin"
    /\ Len(outputs) = 3

(***************************************************************************)
(* C14: the generator does not read ahead and buffers nothing but the      *)
(* chunk at hand: it holds at most one item still to yield, the second     *)
(* item of the closing chunk, and it takes the next input only when every  *)
(* item of the iteration of the input before has been yielded.             *)
(***************************************************************************)
C14_NoReadAhead ==
    /\ [](/\ Len(pending) <= 1
          /\ pc = "next" => pending = <<>>
          /\ pending # <<>> => (pc = "yield" /\ ClosesBlock(Len(inputs))))
    /\ [][ inputs' # inputs =>
            /\ pc = "next" /\ pending = <<>>
            /\ Len(inputs') = Len(inputs) + 1
            /\ \A k \in 1..Len(inputs) :
                groups[k] = iteration(pre[k], inputs[k]).yields
            /\ outputs = Flatten(groups) ]_vars

\* the first item of the closing chunk has been yielded, the second is held,
\* and no input has been taken since
C14_Witness ==
    /\ Len(inputs) = 2 /\ pc = "yield"
    /\ Len(pending) = 1 /\ ContentOnly(pending[1])
    /\ Len(groups[2]) = 1 /\ ReasoningOnly(groups[2][1])
    /\ Len(outputs) = 2


\* the k-th input is a chunk with one field present and empty, the other absent
OnlyEmptyReasoning(k) == IsChunk(k) /\ InDelta(k) = Delta(Some(<<>>), None)
OnlyEmptyContent(k) == IsChunk(k) /\ InDelta(k) = Delta(None, Some(<<>>))

(***************************************************************************)
(* C16: in every ThinkTagState a chunk whose reasoning and content are     *)
(* both present and empty yields nothing and leaves the state, flag        *)
(* included, as it was; a chunk with one field empty and the other absent  *)
(* is not skipped: it goes through the branch of the state it is received  *)
(* in and yields one chunk.                                                *)
(***************************************************************************)
C16_OnlyBothEmptyIsSkipped ==
    \A k \in 1..Len(inputs) :
        /\ (IsChunk(k) /\ IsHeartbeat(k)) =>
            /\ groups[k] = <<>>
            /\ Post(k) = pre[k]
            /\ k = Len(inputs) => (pending = <<>> /\ after = "continue")
        /\ OnlyEmptyReasoning(k) =>
            /\ groups[k] = <<inputs[k]>>
            /\ Post(k) = IF pre[k].tag = "Init" THEN StEnd ELSE pre[k]
        /\ OnlyEmptyContent(k) =>
            /\ Len(groups[k]) = 1
            /\ Post(k) = IF pre[k].tag = "Init" THEN StNoTag
                         ELSE IF pre[k].tag = "Begin" THEN StBegin(TRUE)
                         ELSE pre[k]
            /\ groups[k][1] =
                IF pre[k].tag = "Begin"
                THEN Ok(set_delta(inputs[k].chunk, Delta(Some(<<>>), None)))
                ELSE inputs[k]

\* inside a think block whose flag is not set, a heartbeat yielded nothing
\* and left the flag; the chunk after it, content "" alone, was rewritten
C16_Witness ==
    /\ Len(inputs) = 3 /\ pending = <<>>
    /\ Opens(1)
    /\ pre[2] = StBegin(FALSE) /\ IsChunk(2) /\ IsHeartbeat(2)
    /\ groups[2] = <<>>
    /\ pre[3] = StBegin(FALSE) /\ OnlyEmptyContent(3)
    /\ Len(groups[3]) = 1 /\ ReasoningOnly(groups[3][1])
    /\ state = StBegin(TRUE)

\* the k-th input is a chunk with neither reasoning nor content
BothAbsent(k) == IsChunk(k) /\ InDelta(k) = Delta(None, None)
MissingContent == Err("reasoning_content or content is empty")

(***************************************************************************)
(* C17: a chunk with neither reasoning nor content yields the error        *)
(* "reasoning_content or content is empty" exactly when it is received in  *)
(* Init, and that error ends the output; received in Begin, End or NoTag   *)
(* it is yielded unchanged, with no error, and the state stays as it was.  *)
(***************************************************************************)
C17_BothAbsentFailsOnlyInInit ==
    /\ \A k \in 1..Len(inputs) :
        BothAbsent(k) =>
            IF pre[k].tag = "Init"
            THEN /\ groups[k] = <<MissingContent>>
                 /\ k = Len(inputs)
                 /\ outputs[Len(outputs)] = MissingContent
                 /\ pending = <<>> /\ after = "return"
                 /\ pc \in {"yield", "done"}
            ELSE /\ groups[k] = <<inputs[k]>>
                 /\ Post(k) = pre[k]
    /\ \A i \in 1..Len(outputs) :
        outputs[i] = MissingContent =>
            /\ i = Len(outputs)
            /\ BothAbsent(Len(inputs))
            /\ pre[Len(inputs)].tag = "Init"

\* such a chunk went through a think block unchanged, before the end tag
C17_Witness ==
    /\ Len(inputs) = 3 /\ pending = <<>>
    /\ pre[2] = StBegin(TRUE) /\ BothAbsent(2)
    /\ groups[2] = <<inputs[2]>>
    /\ pre[3] = StBegin(TRUE) /\ ClosesBlock(3)
    /\ Len(outputs) = 4


\* the k-th input is a chunk whose content is moved to the reasoning: the
\* chunk that opens the think block, or a chunk with content received in Begin
Rewritten(k) ==
    /\ IsChunk(k) /\ ~IsHeartbeat(k)
    /\ \/ pre[k].tag = "Init" /\ Opens(k)
       \/ pre[k].tag = "Begin" /\ HasContent(k)
\* the reasoning text the k-th input carries: its content, after the begin
\* tag for the opening chunk, up to the first end tag if it holds one
ReasoningIn(k) ==
    LET c == IF pre[k].tag = "Init"
             THEN Tail_from(InContent(k), Len(THINK_BEGIN_TAG))
             ELSE InContent(k)
    IN  IF HasEndTag(c) THEN SubSeq(c, 1, FirstEndTag(c)) ELSE c
\* the reasoning text yielded for the k-th input
ReasoningOut(k) == unwrap(OutDelta(groups[k][1]).reasoning_content)
\* characters of the reasoning text of the k-th input were removed
Trimmed(k) == Rewritten(k) /\ ReasoningOut(k) # ReasoningIn(k)

(***************************************************************************)
(* C18: the trim of leading whitespace removes characters from the         *)
(* reasoning text of at most one chunk of a response; a chunk received     *)
(* with trimmed_follow_new_line true is never trimmed; and the first chunk *)
(* received in Begin with the flag false that goes through the Begin       *)
(* branch with content and no end tag sets the flag, whether or not the    *)
(* trim removed anything.                                                  *)
(***************************************************************************)
C18_TrimsAtMostOneChunk ==
    /\ Cardinality({k \in 1..Len(inputs) : Trimmed(k)}) <= 1
    /\ \A k \in 1..Len(inputs) :
        Rewritten(k) =>
            LET received == ReasoningIn(k)
                yielded == ReasoningOut(k)
            IN  /\ groups[k][1].tag = "Ok"
                /\ yielded = received \/ yielded = trim_start(received)
                /\ pre[k] = StBegin(TRUE) => yielded = received
                /\ (pre[k] = StBegin(FALSE) /\ ~Closes(k)) =>
                    Post(k) = StBegin(TRUE)
                /\ (pre[k].tag = "Init" /\ ~Closes(k)) =>
                    Post(k) = StBegin(yielded # received)

\* the begin tag came alone; the next chunk lost its leading newline and set
\* the flag; the chunk after it kept its leading newline
C18_Witness ==
    /\ Len(inputs) = 3 /\ pending = <<>>
    /\ Opens(1) /\ InContent(1) = THINK_BEGIN_TAG
    /\ pre[2] = StBegin(FALSE)
    /\ IsChunk(2) /\ HasContent(2) /\ InContent(2) = NL \o ReasoningText
    /\ Trimmed(2) /\ ReasoningOut(2) = ReasoningText
    /\ pre[3] = StBegin(TRUE)
    /\ IsChunk(3) /\ HasContent(3) /\ InContent(3) = NL \o ReasoningText
    /\ ~Trimmed(3) /\ ReasoningOut(3) = NL \o ReasoningText

\* the k-th input opens the think block with a character that is not
\* whitespace directly after the begin tag
OpensWithText(k) ==
    /\ FirstClassified(k) /\ Opens(k)
    /\ Len(InContent(k)) > Len(THINK_BEGIN_TAG)
    /\ ~is_whitespace(InContent(k)[Len(THINK_BEGIN_TAG) + 1])

(***************************************************************************)
(* C19: only whitespace directly after the begin tag is removed from the   *)
(* reasoning: when the opening chunk has a character that is not           *)
(* whitespace directly after the begin tag, the reasoning text of every    *)
(* chunk, the opening one and the later ones, is yielded as received.      *)
(***************************************************************************)
C19_OnlyWhitespaceAfterTagRemoved ==
    \A f \in 1..Len(inputs) :
        OpensWithText(f) =>
            \A k \in f..Len(inputs) :
                Rewritten(k) => ReasoningOut(k) = ReasoningIn(k)


\* the moves of ThinkTagState the claim allows, staying in place included
StateMove(s, t) ==
    \/ t = s
    \/ s.tag = "Init" /\ t.tag \in {"Begin", "End", "NoTag"}
    \/ /\ s.tag = "Begin" /\ t.tag \in {"Begin", "End"}
       /\ (t.tag = "Begin" /\ s.trimmed_follow_new_line)
            => t.trimmed_follow_new_line

(***************************************************************************)
(* C20: ThinkTagState moves only from Init to Begin, End or NoTag and from *)
(* Begin to Begin or End; End and NoTag are never left and Init is never   *)
(* entered again; trimmed_follow_new_line never goes from true to false;   *)
(* a first classified chunk with reasoning present sets End; and every     *)
(* chunk received in End or NoTag, one whose content starts with the begin *)
(* tag included, is yielded as it is or, a heartbeat, not at all.          *)
(***************************************************************************)
C20_StateMovesForwardOnly ==
    /\ [][StateMove(state, state')]_vars
    /\ [](\A k \in 1..Len(inputs) :
            /\ StateMove(pre[k], Post(k))
            /\ (FirstClassified(k) /\ is_some(InDelta(k).reasoning_content))
                => Post(k) = StEnd
            /\ (IsChunk(k) /\ pre[k].tag \in {"End", "NoTag"}) =>
                /\ Post(k) = pre[k]
                /\ \A i \in 1..Len(groups[k]) : groups[k][i] = inputs[k])

\* a first chunk with reasoning present closed the response; the chunk after
\* it, content starting with the begin tag, was yielded as it is
C20_Witness ==
    /\ Len(inputs) = 2 /\ pending = <<>>
    /\ IsChunk(1) /\ InDelta(1).reasoning_content = Some(ReasoningText)
    /\ pre[2] = StEnd /\ state = StEnd
    /\ IsChunk(2) /\ HasContent(2)
    /\ starts_with(InContent(2), THINK_BEGIN_TAG)
    /\ HasEndTag(InContent(2))
    /\ groups[2] = <<inputs[2]>>


(***************************************************************************)
(* C15: the request sent upstream, by proxy_handler and by forward_request *)
(* with or without streaming and think-tag extraction, carries the         *)
(* Authorization header of the inbound request and no other header of it.  *)
(***************************************************************************)
C15_OnlyAuthorizationForwarded ==
    fpc = "sent" =>
        /\ upstream.headers[AUTHORIZATION] = headers[AUTHORIZATION]
        /\ \A n \in HeaderNames \ {AUTHORIZATION} :
            \A i \in 1..Len(upstream.headers[n]) :
                upstream.headers[n][i] \notin HeaderValues


\* chunk out equals chunk src in every field but choices[0].delta
SameButDelta(out, src) ==
    /\ out.id = src.id /\ out.object = src.object
    /\ out.created = src.created /\ out.model = src.model
    /\ Len(out.choices) = Len(src.choices)
    /\ out.choices[1].index = src.choices[1].index
    /\ out.choices[1].logprobs = src.choices[1].logprobs
    /\ out.choices[1].finish_reason = src.choices[1].finish_reason
    /\ out.choices[1].stop_reason = src.choices[1].stop_reason
    /\ \A j \in 2..Len(src.choices) : out.choices[j] = src.choices[j]

(***************************************************************************)
(* C21: every chunk yielded equals the input chunk it is made from in      *)
(* every field but choices[0].delta: id, object, created, model, the index,*)
(* logprobs, finish_reason and stop_reason of the first choice, and the    *)
(* choices after the first; so the two chunks yielded for the closing      *)
(* chunk carry the same such fields, a finish_reason included.             *)
(***************************************************************************)
C21_OnlyDeltaRewritten ==
    \A k \in 1..Len(inputs) :
        IsChunk(k) =>
            \A i \in 1..Len(groups[k]) :
                groups[k][i].tag = "Ok" =>
                    SameButDelta(groups[k][i].chunk, inputs[k].chunk)

\* the closing chunk had two choices and a finish_reason on the first: both
\* chunks yielded for it have them, and their deltas are rewritten
C21_Witness ==
    /\ Len(inputs) = 2 /\ pending = <<>>
    /\ pre[2].tag = "Begin" /\ ClosesBlock(2)
    /\ Len(inputs[2].chunk.choices) = 2
    /\ inputs[2].chunk.choices[1].finish_reason = Some("stop")
    /\ Len(groups[2]) = 2
    /\ \A i \in 1..2 :
        /\ groups[2][i].chunk.choices[1].finish_reason = Some("stop")
        /\ Len(groups[2][i].chunk.choices) = 2
        /\ OutDelta(groups[2][i]) # InDelta(2)


(***************************************************************************)
(* C22: in the truncation of a conversation the single-text truncation of  *)
(* the last message with the budget itself is never reached: when one      *)
(* message is left in the loop, sum is the token count of that message, so *)
(* sum - token_len, 0, is not above the budget; every return from inside   *)
(* the loop is through the cut of the front message, which pops the token  *)
(* queue, and keeps what is over the budget out, not the budget.           *)
(***************************************************************************)
C22_SingleFallbackNeverReached ==
    kind = "Multiple" =>
        /\ (tpc = "loop" /\ Len(token_list) = 1) =>
            /\ sum = Len(token_list[1])
            /\ ~(sum - Len(token_list[1]) > max_token)
        /\ (tpc = "loop" /\ sum > max_token /\ token_list # <<>>) =>
            (sum - Len(token_list[1]) > max_token => Len(token_list) > 1)
        /\ (tpc \in {"done", "panic"} /\ iters > 0) =>
            /\ Len(token_list) = Len(messages) - 1
            /\ Len(tokens) + sum_len(token_list) = max_token

\* the last message left had more than twice the budget in tokens: it was
\* cut down to the budget, where the single-text path would have left more
C22_Witness ==
    /\ tpc = "done" /\ kind = "Multiple"
    /\ max_token > 0
    /\ Len(orig) = 3 /\ Len(messages) = 1
    /\ TokenCount(orig[3].content) > 2 * max_token
    /\ token_list = <<>>
    /\ Len(tokens) = max_token

(***************************************************************************)
(* C23: truncation never fails, for any prompt or conversation and any     *)
(* budget, 0 and empty messages included: the assertion holds in every     *)
(* iteration, sum - token_len does not go below zero, sum is the sum of    *)
(* the token counts of the messages left, the message queue and the token  *)
(* queue are aligned, and no drain asks for more tokens than the message   *)
(* has.                                                                    *)
(***************************************************************************)
C23_TruncationNeverFails ==
    /\ tpc \notin {"panic", "underflow"}
    /\ tpc = "loop" =>
        /\ Len(token_list) = Len(messages)
        /\ \A i \in 1..Len(messages) :
            token_list[i] = encode_with_special_tokens(messages[i].content)
        /\ sum = TotalTokens(messages)
        /\ sum > max_token =>
            /\ token_list # <<>>
            /\ Len(token_list[1]) <= sum
            /\ sum - Len(token_list[1]) <= max_token =>
                sum - max_token <= Len(token_list[1])

\* budget 0 and a conversation that starts with an empty message: the empty
\* message was dropped and the other one cut to nothing
C23_Witness ==
    /\ tpc = "done" /\ kind = "Multiple"
    /\ max_token = 0
    /\ Len(orig) = 2 /\ orig[1].content = <<>>
    /\ iters = 2
    /\ Len(messages) = 1 /\ messages[1].content = <<>>
    /\ messages[1].role = orig[2].role


====
